---- MODULE Spec2Model ----
(***************************************************************************)
(* A model of ttkthemes.themed_tk.ThemedTk (src/ttkthemes/themed_tk.py).   *)
(*                                                                         *)
(* State: the process-wide tk.Toplevel.__init__ reference, the attributes  *)
(* of the one ThemedTk window (theme, background, font_support, the saved  *)
(* __init__toplevel reference), the style engine's "." font per theme, and *)
(* the environment the constructor reads (the tkextrafont module, the      *)
(* bundled fonts directory).  One action per public operation:             *)
(* Construct (ThemedTk.__init__), SetTheme (ThemedTk.set_theme called at   *)
(* runtime) and Toplevel (creation of a child window through               *)
(* tk.Toplevel.__init__, hooked or not).                                   *)
(***************************************************************************)
EXTENDS FiniteSets, Integers, Sequences, TLC

VARIABLES
    extrafont,          \* environment: "absent" | "broken" | "ok" (import tkextrafont / load_extrafont)
    fonts_dir,          \* environment: the fonts directory, a sequence of folders of files
    Toplevel__init__,   \* the process-wide tk.Toplevel.__init__ reference
    constructed,        \* ThemedTk.__init__ has returned normally
    __init__toplevel,   \* self.__init__toplevel, the reference saved at line 63
    font_support,       \* self.font_support
    current_theme,      \* the theme applied through ThemedWidget.set_theme ("none": none yet)
    window_bg,          \* the window's own background option
    style_font,         \* style engine: font configured on "." in each theme ("" when none)
    font_log,           \* what _load_fonts did: files probed, reported, attempted, loaded, and how it ended
    child,              \* the most recent child-window creation and its outcome
    rebinds,            \* number of assignments made to tk.Toplevel.__init__
    hook_theme,         \* theme of the most recent set_theme call made with toplevel=True
    last,               \* the most recent call: operation and arguments
    kw,                 \* the keyword options the constructor was called with
    raised              \* exception that escaped the most recent call ("none" when it returned)

vars == <<extrafont, fonts_dir, Toplevel__init__, constructed, __init__toplevel,
          font_support, current_theme, window_bg, style_font, font_log, child,
          rebinds, hook_theme, last, kw, raised>>

----------------------------------------------------------------------------
(* Bounds *)

\* Depth of nested calls after which the interpreter raises RecursionError.
MaxDepth == 4
\* Cap on the number of times the model rebinds tk.Toplevel.__init__.
MaxRebinds == 3
\* Size of the fonts directories enumerated under SpecFonts.
MaxFolders == 2
MaxFiles == 2

----------------------------------------------------------------------------
(* Environment: theme registry, style engine, fonts directory *)

\* Absent keyword option / absent value.
None == "None"

\* ThemedWidget.get_themes(): the names the theme registry holds.
get_themes == {"adapta", "arc"}

\* Theme names a caller may pass: the registered ones and an unregistered one.
ThemeNames == get_themes \cup {"bogus"}

\* The TFrame background each theme defines in the style engine ("" when the
\* theme defines none).
TFrameBackground == [t \in ThemeNames |-> IF t = "adapta" THEN "#fafbfc" ELSE ""]

\* ThemedTk.FONTS
FONTS == [t \in {"adapta"} |-> "roboto"]

\* Background values a caller of tk.Toplevel(...) may pass explicitly.
ExplicitBackgrounds == {"red", "#fafbfc"}

\* A file of the fonts directory: its suffix, what font_info answers for it
\* ("info": a non-empty list, "empty": an empty list, "TclError": raises) and
\* what load_font does with it.
NotAFont     == [ttf |-> FALSE, info |-> "empty",    load |-> "ok"]
GoodFont     == [ttf |-> TRUE,  info |-> "info",     load |-> "ok"]
Unavailable  == [ttf |-> TRUE,  info |-> "empty",    load |-> "ok"]
ProbeError   == [ttf |-> TRUE,  info |-> "TclError", load |-> "ok"]
LoadError    == [ttf |-> TRUE,  info |-> "info",     load |-> "TclError"]
FileKinds    == {NotAFont, GoodFont, Unavailable, ProbeError, LoadError}

Folders  == UNION {[1..m -> FileKinds] : m \in 0..MaxFiles}
DirTrees == UNION {[1..n -> Folders] : n \in 0..MaxFolders}

\* The fonts directories the full specification starts from.
SampleDirs ==
    { <<>>,
      << <<GoodFont>> >>,
      << <<NotAFont, Unavailable>>, <<LoadError, GoodFont>> >>,
      << <<GoodFont>>, <<ProbeError, GoodFont>> >> }

\* Function values tk.Toplevel.__init__ and self.__init__toplevel can hold.
Original      == [fn |-> "Toplevel.__init__", color |-> ""]
Unset         == [fn |-> "unset", color |-> ""]
Wrapper(c)    == [fn |-> "__toplevel__", color |-> c]

NoLog == [probed |-> {}, unavailable |-> {}, attempted |-> {}, loaded |-> {}, exc |-> "none"]
NoChild == [given |-> None, background |-> None, original_calls |-> 0, exc |-> "none"]
NoCall == [op |-> "none", theme |-> None, toplevel |-> FALSE, background |-> FALSE]

----------------------------------------------------------------------------
(* ThemedTk._load_fonts *)

\* The loop of lines 90-102, from file j of folder i on; acc is what was done so far.
RECURSIVE load_files(_, _, _, _)
load_files(dir, i, j, acc) ==
    IF i > Len(dir) THEN acc
    ELSE IF j > Len(dir[i]) THEN load_files(dir, i + 1, 1, acc)
    ELSE LET file == dir[i][j]
             probed == [acc EXCEPT !.probed = @ \cup {<<i, j>>}]
         IN  IF ~file.ttf THEN load_files(dir, i, j + 1, acc)
             ELSE IF file.info = "TclError"
                  THEN [probed EXCEPT !.exc = "TclError"]
             ELSE IF file.info = "empty"
                  THEN load_files(dir, i, j + 1,
                                  [probed EXCEPT !.unavailable = @ \cup {<<i, j>>}])
             ELSE IF file.load = "TclError"
                  THEN load_files(dir, i, j + 1,
                                  [probed EXCEPT !.attempted = @ \cup {<<i, j>>}])
             ELSE load_files(dir, i, j + 1,
                             [probed EXCEPT !.attempted = @ \cup {<<i, j>>},
                                            !.loaded = @ \cup {<<i, j>>}])

_load_fonts ==
    IF extrafont = "absent" THEN [NoLog EXCEPT !.exc = "ImportError"]
    ELSE IF extrafont = "broken" THEN [NoLog EXCEPT !.exc = "TclError"]
    ELSE load_files(fonts_dir, 1, 1, NoLog)

----------------------------------------------------------------------------
(* ThemedTk.set_theme and the Toplevel hook *)

\* Variant of lookup: the default="white" argument is left out.
lookup_no_default(theme) ==
    TFrameBackground[theme]

\* style.lookup("TFrame", "background", default="white") in theme `theme`.
lookup(theme) ==
    IF TFrameBackground[theme] = "" THEN "white" ELSE TFrameBackground[theme]

\* if background is True: self.config(background=color)
config_background(background, color) ==
    window_bg' = IF background THEN color ELSE window_bg

\* Variant of _setup_toplevel_hook: the hook is installed only while
\* tk.Toplevel.__init__ is still the toolkit's own constructor.
_setup_toplevel_hook_once(color) ==
    IF Toplevel__init__ = Original
    THEN /\ Toplevel__init__' = Wrapper(color)
         /\ rebinds' = rebinds + 1
    ELSE UNCHANGED <<Toplevel__init__, rebinds>>

\* _setup_toplevel_hook: a new __toplevel__ closure over `color` replaces
\* tk.Toplevel.__init__.
_setup_toplevel_hook(color) ==
    /\ Toplevel__init__' = Wrapper(color)
    /\ rebinds' = rebinds + 1

\* Variant of the toplevel test: the hook is installed whatever the flag.
toplevel_hook_always(toplevel, color) ==
    /\ Toplevel__init__' = Wrapper(color)
    /\ rebinds' = rebinds + 1

\* if toplevel is True: self._setup_toplevel_hook(color)
toplevel_hook(toplevel, color) ==
    IF toplevel THEN _setup_toplevel_hook(color)
    ELSE UNCHANGED <<Toplevel__init__, rebinds>>

\* if theme_name in self.FONTS and self.font_support: style.configure(".", font=...)
\* style.configure acts on the theme in use, which is theme_name by now;
\* font_support is the attribute's value at the time of the call.
configure_font(theme_name) ==
    style_font' = IF theme_name \in DOMAIN FONTS /\ font_support'
                  THEN [style_font EXCEPT ![theme_name] = FONTS[theme_name]]
                  ELSE style_font

\* ThemedTk.set_theme(theme_name, toplevel, background)
set_theme(theme_name, toplevel, background) ==
    /\ current_theme' = theme_name
    /\ LET color == lookup(current_theme')
       IN  /\ config_background(background, color)
           /\ toplevel_hook(toplevel, color)
    /\ configure_font(theme_name)
    /\ hook_theme' = IF toplevel THEN theme_name ELSE hook_theme

\* kwargs.setdefault("background", color); None stands for an absent option.
setdefault(background, color) ==
    IF background = None THEN color ELSE background

\* A call of the function value f with the given background option, at call
\* depth `depth`: the toolkit's own constructor, or the __toplevel__ closure
\* (lines 79-81), which reads self.__init__toplevel when it runs.
RECURSIVE call(_, _, _)
__toplevel__(color, background, depth) ==
    call(__init__toplevel, setdefault(background, color), depth + 1)

call(f, background, depth) ==
    IF depth >= MaxDepth
    THEN [background |-> background, original_calls |-> 0, exc |-> "RecursionError"]
    ELSE IF f.fn = "Toplevel.__init__"
    THEN [background |-> background, original_calls |-> 1, exc |-> "none"]
    ELSE IF f.fn = "__toplevel__"
    THEN __toplevel__(f.color, background, depth)
    ELSE [background |-> background, original_calls |-> 0, exc |-> "AttributeError"]

----------------------------------------------------------------------------
(* ThemedTk.__init__ *)

\* Variant of the except clause: tk.TclError is not caught.
except_clause_import_only == {"ImportError"}

\* except (tk.TclError, ImportError)
except_clause == {"TclError", "ImportError"}

\* Variant of line 57: self.font_support = True, the fonts option ignored.
font_support_result_ignores_option(fonts, exc) ==
    exc = "none"

\* The value self.font_support gets from lines 55-59 when _load_fonts ended with exc.
font_support_result(fonts, exc) ==
    IF exc = "none" THEN (TRUE /\ fonts) ELSE FALSE

\* Variant of line 61: the registry is not consulted.
initial_theme_given_unchecked(theme) ==
    theme # None

\* if theme is not None and theme in self.get_themes()
initial_theme_given(theme) ==
    theme # None /\ theme \in get_themes

__init__(theme, toplevel, background, fonts) ==
    LET lf == _load_fonts
        args == [theme |-> theme, toplevel |-> toplevel,
                 background |-> background, fonts |-> fonts]
    IN  /\ last.op = "none"
        /\ font_log' = lf
        /\ kw' = args
        /\ last' = [op |-> "Construct", theme |-> theme, toplevel |-> toplevel,
                    background |-> background]
        /\ IF lf.exc \notin except_clause \cup {"none"}
           THEN \* the exception leaves the constructor
                /\ raised' = lf.exc
                /\ UNCHANGED <<Toplevel__init__, constructed, __init__toplevel,
                               font_support, current_theme, window_bg, style_font,
                               rebinds, hook_theme>>
           ELSE /\ raised' = "none"
                /\ font_support' = font_support_result(fonts, lf.exc)
                /\ IF initial_theme_given(theme)
                   THEN set_theme(theme, toplevel, background)
                   ELSE UNCHANGED <<current_theme, window_bg, Toplevel__init__,
                                    rebinds, style_font, hook_theme>>
                /\ __init__toplevel' = Toplevel__init__'
                /\ constructed' = TRUE
        /\ UNCHANGED <<extrafont, fonts_dir, child>>

----------------------------------------------------------------------------
(* Actions *)

Construct ==
    \E theme \in ThemeNames \cup {None}, toplevel \in BOOLEAN,
       background \in BOOLEAN, fonts \in BOOLEAN :
        __init__(theme, toplevel, background, fonts)

\* set_theme called on the constructed window.  The names drawn are the
\* registered ones: what ThemedWidget.set_theme does with another name is
\* decided outside this file.
SetTheme ==
    \E theme_name \in get_themes, toplevel \in BOOLEAN, background \in BOOLEAN :
        /\ constructed
        /\ toplevel => rebinds < MaxRebinds
        /\ font_support' = font_support
        /\ set_theme(theme_name, toplevel, background)
        /\ last' = [op |-> "SetTheme", theme |-> theme_name, toplevel |-> toplevel,
                    background |-> background]
        /\ raised' = "none"
        /\ UNCHANGED <<extrafont, fonts_dir, constructed, __init__toplevel,
                       font_log, child, kw>>

\* tk.Toplevel(...) with or without an explicit background option.
Toplevel ==
    \E given \in ExplicitBackgrounds \cup {None} :
        /\ constructed
        /\ LET r == call(Toplevel__init__, given, 0)
           IN  /\ child' = [given |-> given, background |-> r.background,
                            original_calls |-> r.original_calls, exc |-> r.exc]
               /\ raised' = r.exc
        /\ last' = [op |-> "Toplevel", theme |-> None, toplevel |-> FALSE,
                    background |-> FALSE]
        /\ UNCHANGED <<extrafont, fonts_dir, Toplevel__init__, constructed,
                       __init__toplevel, font_support, current_theme, window_bg,
                       style_font, font_log, rebinds, hook_theme, kw>>

InitWindow ==
    /\ Toplevel__init__ = Original
    /\ constructed = FALSE
    /\ __init__toplevel = Unset
    /\ font_support = FALSE
    /\ current_theme = "none"
    /\ window_bg = "default"
    /\ style_font = [t \in ThemeNames |-> ""]
    /\ font_log = NoLog
    /\ child = NoChild
    /\ rebinds = 0
    /\ hook_theme = "none"
    /\ last = NoCall
    /\ kw = [theme |-> None, toplevel |-> FALSE, background |-> FALSE, fonts |-> FALSE]
    /\ raised = "none"

Init ==
    /\ extrafont \in {"absent", "broken", "ok"}
    /\ fonts_dir \in SampleDirs
    /\ InitWindow

Next == Construct \/ SetTheme \/ Toplevel

Spec == Init /\ [][Next]_vars

\* The constructor alone, over every fonts directory within the bounds.
InitFonts ==
    /\ extrafont \in {"absent", "broken", "ok"}
    /\ fonts_dir \in DirTrees
    /\ InitWindow

NextFonts == Construct

SpecFonts == InitFonts /\ [][NextFonts]_vars

----------------------------------------------------------------------------
(* Properties *)

\* The frame background the style engine resolves in theme t: the colour the
\* theme defines for TFrame, or the lookup default "white".
FrameColour(t) ==
    IF TFrameBackground[t] # "" THEN TFrameBackground[t] ELSE "white"

\* The most recent call ran set_theme: a runtime call, or the constructor
\* given a registered theme.
SetThemeRan ==
    \/ last.op = "SetTheme"
    \/ last.op = "Construct" /\ constructed /\ last.theme \in get_themes

\* The .ttf files of the fonts directory, by (folder, file) position, and
\* the order in which _load_fonts visits them.
FontFiles ==
    {p \in (DOMAIN fonts_dir) \X (1..MaxFiles) :
        p[2] \in DOMAIN fonts_dir[p[1]] /\ fonts_dir[p[1]][p[2]].ttf}
Later(p, q) == p[1] < q[1] \/ (p[1] = q[1] /\ p[2] < q[2])
File(p) == fonts_dir[p[1]][p[2]]

\* C1: once set_theme has run with toplevel=True (at runtime or from the
\* constructor), a child window created without a background option is
\* constructed with the frame colour resolved by the most recent such call,
\* and one created with an explicit background keeps it.
C1_ChildBackground ==
    (last.op = "Toplevel" /\ hook_theme # "none") =>
        /\ child.exc = "none"
        /\ child.background = IF child.given = None THEN FrameColour(hook_theme)
                              ELSE child.given

\* C2: every child-window creation terminates after calling the toolkit's
\* own constructor exactly once; the wrapper never delegates to itself.
C2_DelegatesToOriginal ==
    last.op = "Toplevel" => (raised = "none" /\ child.original_calls = 1)

\* C3: a set_theme call with background=True leaves the window background
\* equal to the frame colour resolved for the theme just applied.
C3_WindowBackground ==
    (SetThemeRan /\ last.background) =>
        (current_theme = last.theme /\ window_bg = FrameColour(last.theme))

C3_Witness ==
    /\ last.op = "SetTheme" /\ last.background /\ last.theme = "arc"
    /\ window_bg = "white"
    /\ kw.background /\ kw.theme = "adapta"

\* C4: the constructor given a theme name outside the registry returns
\* normally and leaves the window without a theme, whatever the flags.
C4_UnknownTheme ==
    (last.op = "Construct" /\ kw.theme \notin get_themes /\ kw.theme # None) =>
        (raised = "none" /\ constructed /\ current_theme = "none")

C4_Witness ==
    /\ last.op = "Construct" /\ kw.theme = "bogus"
    /\ kw.toplevel /\ kw.background /\ kw.fonts
    /\ constructed /\ current_theme = "none"

\* C5: when _load_fonts ends with ImportError or TclError, the constructor
\* still returns normally, applies a requested registered theme, and leaves
\* font_support False even if fonts=True was passed.
C5_FontFailure ==
    (last.op = "Construct" /\ font_log.exc \in {"ImportError", "TclError"}) =>
        /\ raised = "none"
        /\ constructed
        /\ font_support = FALSE
        /\ kw.theme \in get_themes => current_theme = kw.theme

C5_Witness ==
    /\ last.op = "Construct" /\ font_log.exc = "TclError" /\ font_log.loaded # {}
    /\ kw.fonts /\ kw.theme = "adapta"
    /\ constructed /\ ~font_support /\ current_theme = "adapta"

\* C6: a window constructed with fonts=False has font_support False, whether
\* or not fonts could be loaded, and no later set_theme configures a font.
C6_FontsOff ==
    (constructed /\ ~kw.fonts) =>
        (font_support = FALSE /\ \A t \in ThemeNames : style_font[t] = "")

C6_Witness ==
    /\ constructed /\ ~kw.fonts
    /\ extrafont = "ok" /\ font_log.exc = "none" /\ font_log.loaded # {}
    /\ last.op = "SetTheme" /\ last.theme = "adapta"
    /\ style_font["adapta"] = ""

\* C7: after load_font raises for one file, every later font file of the
\* tree is still probed and, if available, attempted.
C7_LoadErrorContinues ==
    last.op = "Construct" =>
        \A p \in font_log.attempted \ font_log.loaded :
            \A q \in FontFiles :
                Later(p, q) =>
                    /\ q \in font_log.probed
                    /\ File(q).info = "info" => q \in font_log.attempted

\* C8: after font_info raises for one file, only that file is skipped: every
\* later font file of the tree is still probed.
C8_ProbeErrorContinues ==
    last.op = "Construct" =>
        \A p \in font_log.probed :
            File(p).info = "TclError" =>
                \A q \in FontFiles : Later(p, q) => q \in font_log.probed

\* C9 as stated: tk.Toplevel.__init__ is rebound at most once, and once
\* rebound it is not the toolkit's own constructor again.
C9_ReboundAtMostOnce ==
    /\ rebinds <= 1
    /\ rebinds > 0 => Toplevel__init__ # Original

\* C9 amended: tk.Toplevel.__init__ is rebound once by every set_theme call
\* made with toplevel=True (the constructor's included) and by no other
\* call, and once rebound it is never the toolkit's own constructor again.
C9_ReboundByEachHookCall ==
    [][ /\ rebinds' = IF SetThemeRan' /\ last'.toplevel THEN rebinds + 1 ELSE rebinds
        /\ Toplevel__init__ # Original => Toplevel__init__' # Original
        /\ rebinds' > 0 => Toplevel__init__' # Original ]_vars

C9_Witness ==
    /\ rebinds = 2 /\ Toplevel__init__.fn = "__toplevel__"
    /\ last.op = "SetTheme" /\ last.toplevel

\* C10: tk.Toplevel.__init__ changes only in a set_theme call with
\* toplevel=True and the window background only in one with background=True
\* (so the constructor without a registered theme changes neither); a hook
\* left in place by a toplevel=False call keeps supplying the colour of the
\* theme it was installed for.
C10_FrameEffect ==
    [][ /\ (Toplevel__init__' # Toplevel__init__ \/ rebinds' # rebinds)
              => (SetThemeRan' /\ last'.toplevel)
        /\ window_bg' # window_bg => (SetThemeRan' /\ last'.background)
        /\ (last'.op = "Toplevel" /\ hook_theme # "none")
              => Toplevel__init__.color = FrameColour(hook_theme) ]_vars

C10_Witness ==
    /\ last.op = "Toplevel" /\ child.given = None /\ child.exc = "none"
    /\ hook_theme = "adapta" /\ current_theme = "arc"
    /\ child.background = FrameColour("adapta")
    /\ window_bg = "default"
    /\ kw.toplevel /\ kw.background /\ kw.theme = "bogus"

====
